---- MODULE Spec2Model ----
(***************************************************************************)
(* Model of scripts/build_prices.py: the field formatters, the title       *)
(* builder, the slug allocator, the grouping engine (build_sections) and   *)
(* the run of main against the target document and the JSON output file.   *)
(*                                                                         *)
(* A Python str is a sequence of one-character tokens.  The characters     *)
(* outside ASCII that the program names are the tokens "ndash" (U+2013),   *)
(* "mdash" (U+2014) and "pound" (U+00A3); "euro" is U+20AC.                *)
(***************************************************************************)
EXTENDS Integers, Sequences, FiniteSets, TLC

VARIABLES
    fn,        \* the library function that has returned ("none" before the call)
    args,      \* the call: the function's name (f) and its arguments
    result,    \* what the call returned
    pc,        \* position of the run of main
    csv,       \* what csv.reader yields for the fetched text: the list of lines
    config,    \* the environment: [write_jsonld]
    html_file, \* TARGET_HTML on disk: [exists, text]
    json_file, \* JSON_OUT on disk: [exists, text]
    html_src,  \* main's local html_src
    html_out,  \* main's local html_out
    json_payload, \* main's local json_payload: [set, value], set = FALSE for None
    path,      \* the schema branch the run took
    error,     \* why the run raised
    writes,    \* the files the current run has written, in order
    snapshot,  \* the two files as they were when the current run started
    runs       \* number of runs of main started

libVars == <<fn, args, result>>
mainVars == <<pc, csv, config, html_file, json_file, html_src, html_out,
              json_payload, path, error, writes, snapshot, runs>>
vars == <<libVars, mainVars>>

\* Python's None, told apart from every str
None == <<"None">>

-----------------------------------------------------------------------------
(* Characters and the str methods the program uses                         *)

UpperChars == <<"A","B","C","D","E","F","G","H","I","J","K","L","M",
                "N","O","P","Q","R","S","T","U","V","W","X","Y","Z">>
LowerChars == <<"a","b","c","d","e","f","g","h","i","j","k","l","m",
                "n","o","p","q","r","s","t","u","v","w","x","y","z">>
DigitChars == <<"0","1","2","3","4","5","6","7","8","9">>

Range(s) == {s[i] : i \in DOMAIN s}

IsUpper(c) == c \in Range(UpperChars)
IsLowerLetter(c) == c \in Range(LowerChars)
IsDigit(c) == c \in Range(DigitChars)
IsAsciiAlnum(c) == IsUpper(c) \/ IsLowerLetter(c) \/ IsDigit(c)
IndexIn(c, s) == CHOOSE i \in DOMAIN s : s[i] = c

LowerChar(c) == IF IsUpper(c) THEN LowerChars[IndexIn(c, UpperChars)] ELSE c
UpperChar(c) == IF IsLowerLetter(c) THEN UpperChars[IndexIn(c, LowerChars)] ELSE c
DigitVal(c) == IndexIn(c, DigitChars) - 1

\* str.lower()
Lower(s) == [i \in DOMAIN s |-> LowerChar(s[i])]

\* str.replace(old, new) for a one-character old and new
Replace(s, old, new) == [i \in DOMAIN s |-> IF s[i] = old THEN new ELSE s[i]]

\* str.replace(c, "")
Remove(s, c) == SelectSeq(s, LAMBDA x : x # c)

\* s[n:]
DropFirst(s, n) == IF n >= Len(s) THEN <<>> ELSE SubSeq(s, n + 1, Len(s))

\* s[:n]
TakeFirst(s, n) == IF n >= Len(s) THEN s ELSE SubSeq(s, 1, n)

RECURSIVE LStripSet(_, _)
LStripSet(s, cs) ==
    IF s # <<>> /\ Head(s) \in cs THEN LStripSet(Tail(s), cs) ELSE s

RECURSIVE RStripSet(_, _)
RStripSet(s, cs) ==
    IF s # <<>> /\ s[Len(s)] \in cs
    THEN RStripSet(SubSeq(s, 1, Len(s) - 1), cs)
    ELSE s

\* str.strip(chars)
StripSet(s, cs) == RStripSet(LStripSet(s, cs), cs)

\* str.strip()
Strip(s) == StripSet(s, {" "})

\* str.startswith(p)
StartsWith(s, p) == Len(p) <= Len(s) /\ SubSeq(s, 1, Len(p)) = p

\* "sub in s"
Contains(s, sub) ==
    \E i \in 0..(Len(s) - Len(sub)) : SubSeq(s, i + 1, i + Len(sub)) = sub

\* sep.join(parts)
RECURSIVE Join(_, _)
Join(parts, sep) ==
    IF parts = <<>> THEN <<>>
    ELSE IF Len(parts) = 1 THEN parts[1]
    ELSE parts[1] \o sep \o Join(Tail(parts), sep)

\* str(n) for an int n >= 0
RECURSIVE IntToStr(_)
IntToStr(n) ==
    IF n < 10 THEN <<DigitChars[n + 1]>>
    ELSE IntToStr(n \div 10) \o <<DigitChars[(n % 10) + 1]>>

RECURSIVE Pow10(_)
Pow10(k) == IF k = 0 THEN 1 ELSE 10 * Pow10(k - 1)

\* the value of a run of digits
RECURSIVE DigitsVal(_)
DigitsVal(s) ==
    IF s = <<>> THEN 0
    ELSE 10 * DigitsVal(SubSeq(s, 1, Len(s) - 1)) + DigitVal(s[Len(s)])

AllDigits(s) == \A i \in DOMAIN s : IsDigit(s[i])

(* float(text) for the decimal literals digits[.digits] and .digits, with  *)
(* surrounding whitespace ignored as float() does; any other text raises   *)
(* ValueError (ok = FALSE).  The value is n / 10^d.                        *)
ParseFloat(text) ==
    LET t == Strip(text)
        dots == {i \in DOMAIN t : t[i] = "."}
        dot == IF dots = {} THEN Len(t) + 1 ELSE CHOOSE i \in dots : TRUE
        ip == SubSeq(t, 1, dot - 1)
        fp == DropFirst(t, dot)
    IN  IF Cardinality(dots) <= 1 /\ AllDigits(ip) /\ AllDigits(fp)
           /\ Len(ip) + Len(fp) >= 1
        THEN [ok |-> TRUE, n |-> DigitsVal(ip \o fp), d |-> Len(fp)]
        ELSE [ok |-> FALSE, n |-> 0, d |-> 0]

\* float.is_integer()
IsInteger(v) == v.n % Pow10(v.d) = 0

\* int(value)
IntOf(v) == v.n \div Pow10(v.d)

\* number == 0
IsZero(v) == v.n = 0

(* "%.2f" % value: the value rounded to hundredths.  A remainder of        *)
(* exactly one half is rounded to even, which is what the conversion does  *)
(* when the double holds the decimal exactly.                              *)
Fixed2(v) ==
    LET scaled == v.n * 100
        p == Pow10(v.d)
        q == scaled \div p
        r == scaled % p
        h == IF 2 * r < p THEN q
             ELSE IF 2 * r > p THEN q + 1
             ELSE IF q % 2 = 0 THEN q ELSE q + 1
    IN  IntToStr(h \div 100) \o <<".">>
        \o <<DigitChars[((h % 100) \div 10) + 1], DigitChars[(h % 10) + 1]>>

-----------------------------------------------------------------------------
(* Slug allocator                                                          *)

\* re.sub(r"[^a-z0-9]+", "-", text)
RECURSIVE SubNonSlugRuns(_, _, _)
SubNonSlugRuns(text, i, out) ==
    IF i > Len(text) THEN out
    ELSE IF IsLowerLetter(text[i]) \/ IsDigit(text[i])
         THEN SubNonSlugRuns(text, i + 1, Append(out, text[i]))
         ELSE IF i > 1 /\ ~(IsLowerLetter(text[i-1]) \/ IsDigit(text[i-1]))
              THEN SubNonSlugRuns(text, i + 1, out)
              ELSE SubNonSlugRuns(text, i + 1, Append(out, "-"))

\* re.sub(r"-+", "-", text)
RECURSIVE SubHyphenRuns(_, _, _)
SubHyphenRuns(text, i, out) ==
    IF i > Len(text) THEN out
    ELSE IF text[i] = "-" /\ i > 1 /\ text[i-1] = "-"
         THEN SubHyphenRuns(text, i + 1, out)
         ELSE SubHyphenRuns(text, i + 1, Append(out, text[i]))

slugify_keep_ends(parts) ==
    LET joined == Join(SelectSeq(parts, LAMBDA p : p # <<>>), <<"-">>)
        text3 == SubNonSlugRuns(Lower(joined), 1, <<>>)
    IN  IF text3 = <<>> THEN <<"s","e","c","t","i","o","n">> ELSE text3

slugify(parts) ==
    LET joined == Join(SelectSeq(parts, LAMBDA p : p # <<>>), <<"-">>)
        text1 == Replace(Replace(joined, "ndash", "-"), "mdash", "-")
        text2 == Lower(text1)
        text3 == SubNonSlugRuns(text2, 1, <<>>)
        text4 == StripSet(SubHyphenRuns(text3, 1, <<>>), {"-"})
    IN  IF text4 = <<>> THEN <<"s","e","c","t","i","o","n">> ELSE text4

RECURSIVE unique_slug_loop(_, _, _, _)
unique_slug_loop(base, used, slug, counter) ==
    IF slug \in used
    THEN unique_slug_loop(base, used,
                          base \o <<"-">> \o IntToStr(counter), counter + 1)
    ELSE slug

unique_slug_no_loop(base, used) ==
    LET slug == IF base = <<>> THEN <<"s","e","c","t","i","o","n">> ELSE base
    IN  [slug |-> slug, used |-> used \cup {slug}]

\* returns the slug and the tracking set as the call leaves it
unique_slug(base, used) ==
    LET start == IF base = <<>> THEN <<"s","e","c","t","i","o","n">> ELSE base
        slug == unique_slug_loop(base, used, start, 2)
    IN  [slug |-> slug, used |-> used \cup {slug}]

-----------------------------------------------------------------------------
(* Field formatters                                                        *)

format_number(value) ==
    IF IsInteger(value)
    THEN LET v == IntOf(value)
         IN  IF v # 0 /\ v % 1000 = 0
             THEN IntToStr(v \div 1000) \o <<"k">>
             ELSE IntToStr(v)
    ELSE RStripSet(RStripSet(Fixed2(value), {"0"}), {"."})

capitalise(text) ==
    IF text # <<>> THEN <<UpperChar(text[1])>> \o DropFirst(text, 1) ELSE text

S_service == <<"s","e","r","v","i","c","e">>
S_change == <<"c","h","a","n","g","e">>
S_scheduled_service ==
    <<"s","c","h","e","d","u","l","e","d"," ","s","e","r","v","i","c","e">>
S_fluids == <<"f","l","u","i","d","s">>
S_maintenance == <<"m","a","i","n","t","e","n","a","n","c","e">>

format_job(category0, item0) ==
    LET category == Strip(category0)
        item == Strip(item0)
        cat_lower == Lower(category)
        item_lower == Lower(item)
    IN  IF cat_lower = S_scheduled_service
        THEN IF item = <<>>
             THEN <<"S","c","h","e","d","u","l","e","d"," ","S","e","r","v","i","c","e">>
             ELSE IF item_lower = S_maintenance
             THEN <<"M","a","i","n","t","e","n","a","n","c","e">>
             ELSE IF ~Contains(item_lower, S_service)
             THEN item \o <<" ","S","e","r","v","i","c","e">>
             ELSE item
        ELSE IF cat_lower = S_fluids
        THEN IF item = <<>>
             THEN <<"F","l","u","i","d","s">>
             ELSE IF ~Contains(item_lower, S_change)
             THEN item \o <<" ","C","h","a","n","g","e">>
             ELSE item
        ELSE IF item # <<>> THEN item
        ELSE IF category # <<>> THEN category
        ELSE <<"mdash">>

format_miles_part(value) ==
    LET raw == Strip(Remove(value, ","))
        number == ParseFloat(raw)
    IN  IF raw = <<>> THEN <<>>
        ELSE IF ~number.ok THEN capitalise(Strip(value))
        ELSE IF IsZero(number) THEN <<>>
        ELSE format_number(number) \o <<" ","m","i","l","e","s">>

format_years_part(value) ==
    LET raw == Strip(Remove(value, ","))
        number == ParseFloat(raw)
    IN  IF raw = <<>> THEN <<>>
        ELSE IF ~number.ok THEN capitalise(Strip(value))
        ELSE IF IsZero(number) THEN <<>>
        ELSE IF IsInteger(number)
        THEN IntToStr(IntOf(number))
             \o (IF IntOf(number) = 1 THEN <<" ","y","e","a","r">>
                 ELSE <<" ","y","e","a","r","s">>)
        ELSE format_number(number) \o <<" ","y","e","a","r","s">>

format_interval(miles, years) ==
    LET miles_part == format_miles_part(miles)
        years_part == format_years_part(years)
        parts == (IF miles_part # <<>> THEN <<miles_part>> ELSE <<>>)
                 \o (IF years_part # <<>> THEN <<years_part>> ELSE <<>>)
    IN  IF parts # <<>> THEN Join(parts, <<" ","/"," ">>) ELSE <<"mdash">>

\* os.environ.get("CURRENCY", "GBP") with the variable unset
CURRENCY == <<"G","B","P">>

CURRENCY_SYMBOL ==
    LET code == [i \in DOMAIN CURRENCY |-> UpperChar(CURRENCY[i])]
    IN  IF code = <<"G","B","P">> THEN <<"pound">>
        ELSE IF code = <<"U","S","D">> THEN <<"$">>
        ELSE IF code = <<"E","U","R">> THEN <<"euro">>
        ELSE CURRENCY \o <<" ">>

format_price_via_format_number(value) ==
    LET raw == Strip(value)
        number == ParseFloat(Remove(raw, ","))
    IN  IF raw = <<>> THEN <<"P","O","A">>
        ELSE IF ~number.ok THEN raw
        ELSE CURRENCY_SYMBOL \o format_number(number)

format_price(value) ==
    LET raw == Strip(value)
        candidate == Remove(raw, ",")
        number == ParseFloat(candidate)
    IN  IF raw = <<>> THEN <<"P","O","A">>
        ELSE IF ~number.ok THEN raw
        ELSE IF IsInteger(number)
        THEN CURRENCY_SYMBOL \o IntToStr(IntOf(number))
        ELSE CURRENCY_SYMBOL \o format_number(number)

-----------------------------------------------------------------------------
(* Title builder                                                           *)

RECURSIVE LeadingCount(_, _)
LeadingCount(s, cs) ==
    IF s # <<>> /\ Head(s) \in cs THEN 1 + LeadingCount(Tail(s), cs) ELSE 0

AsciiAlnumChars == Range(UpperChars) \cup Range(LowerChars) \cup Range(DigitChars)

\* GENERATION_RE.match(variant): group 1 (two to four digits, then any run
\* of ASCII letters and digits) after leading whitespace, or None
GENERATION_RE_match(variant) ==
    LET t == LStripSet(variant, {" "})
        nd == LeadingCount(t, Range(DigitChars))
        digits == IF nd > 4 THEN 4 ELSE nd
        rest == DropFirst(t, digits)
    IN  IF nd >= 2
        THEN TakeFirst(t, digits + LeadingCount(rest, AsciiAlnumChars))
        ELSE None

extract_generation_years_first(model0, variant0, years0) ==
    LET variant == Strip(variant0)
        years == Strip(years0)
        model == Strip(model0)
    IN  IF years # <<>> /\ \E i \in DOMAIN years : IsDigit(years[i]) THEN years
        ELSE IF variant # <<>> THEN variant
        ELSE model

extract_generation(model0, variant0, years0) ==
    LET variant == Strip(variant0)
        years == Strip(years0)
        model == Strip(model0)
        match == GENERATION_RE_match(variant)
    IN  IF match # None THEN match
        ELSE IF years # <<>> /\ \E i \in DOMAIN years : IsDigit(years[i])
        THEN years
        ELSE IF variant # <<>> THEN variant
        ELSE model

\* [0-9]{2,4}
Digits24(s) == Len(s) \in 2..4 /\ AllDigits(s)

\* re.fullmatch(r"[0-9]{2,4}(?:-[0-9]{2,4})?", s)
FullMatchDigitsOrRange(s) ==
    \/ Digits24(s)
    \/ \E i \in DOMAIN s :
          /\ s[i] = "-"
          /\ Digits24(SubSeq(s, 1, i - 1))
          /\ Digits24(DropFirst(s, i))

\* re.fullmatch(r"[0-9]{2,4}[A-Za-z]?", s)
FullMatchDigitsLetter(s) ==
    \/ Digits24(s)
    \/ /\ Len(s) >= 1
       /\ (IsUpper(s[Len(s)]) \/ IsLowerLetter(s[Len(s)]))
       /\ Digits24(SubSeq(s, 1, Len(s) - 1))

Paren(model, generation) == model \o <<" ","(">> \o generation \o <<")">>

format_section_title(model0, generation0) ==
    LET model == Strip(model0)
        generation == Strip(generation0)
        normalised == Replace(generation, "ndash", "-")
        remainder == StripSet(DropFirst(generation, Len(model)),
                              {" ", "-", "ndash", "/"})
    IN  IF generation = <<>> \/ Lower(generation) = Lower(model) THEN model
        ELSE IF FullMatchDigitsOrRange(normalised)
        THEN Paren(model, generation)
        ELSE IF StartsWith(Lower(generation), Lower(model))
        THEN IF remainder # <<>> THEN model \o <<" ">> \o remainder ELSE model
        ELSE IF FullMatchDigitsLetter(generation)
        THEN Paren(model, generation)
        ELSE IF model # <<>> THEN model \o <<" ">> \o generation
        ELSE generation

format_variant_heading(model, generation0, variant, years, powertrain, transmission) ==
    LET name0 == Strip(variant)
        generation == Strip(generation0)
        name == IF generation # <<>> /\ StartsWith(Lower(name0), Lower(generation))
                THEN Strip(LStripSet(Strip(DropFirst(name0, Len(generation))),
                                     {"-", "ndash", "/"}))
                ELSE name0
        given == <<years, powertrain, transmission>>
        kept == SelectSeq(given, LAMBDA x : x # <<>> /\ Strip(x) # <<>>)
        extras == [i \in DOMAIN kept |-> Strip(kept[i])]
    IN  IF name # <<>> /\ extras # <<>>
        THEN name \o <<" ","(">> \o Join(extras, <<","," ">>) \o <<")">>
        ELSE IF name = <<>> /\ extras # <<>> THEN Join(extras, <<","," ">>)
        ELSE name

format_combination_title(model, generation, variant, years, powertrain, transmission) ==
    LET base == format_section_title(model, generation)
        heading == format_variant_heading(model, generation, variant, years,
                                          powertrain, transmission)
    IN  IF base # <<>> /\ heading # <<>>
        THEN base \o <<" ","mdash"," ">> \o heading
        ELSE IF heading # <<>> THEN heading
        ELSE IF base # <<>> THEN base
        ELSE IF model # <<>> THEN model
        ELSE <<"P","r","i","c","e"," ","l","i","s","t">>

-----------------------------------------------------------------------------
(* Grouping engine                                                         *)

\* row.get(key)
Get(row, key) == IF key \in DOMAIN row THEN row[key] ELSE None

\* row.get(key, "")
GetStr(row, key) == IF key \in DOMAIN row THEN row[key] ELSE <<>>

\* row.get(key) or ""
GetOrEmpty(row, key) ==
    IF Get(row, key) = None THEN <<>> ELSE Get(row, key)

format_row(row) ==
    [job |-> format_job(GetStr(row, "service_category"),
                        GetStr(row, "service_item")),
     interval |-> format_interval(GetStr(row, "interval_miles"),
                                  GetStr(row, "interval_years")),
     price |-> format_price(GetStr(row, "price_gbp_ex_vat")),
     service_category |-> GetStr(row, "service_category"),
     service_item |-> GetStr(row, "service_item"),
     interval_miles |-> GetStr(row, "interval_miles"),
     interval_years |-> GetStr(row, "interval_years"),
     raw_price |-> GetStr(row, "price_gbp_ex_vat")]

\* (row.get("model_family") or row.get("model") or "").strip()
row_model(row) ==
    Strip(IF GetOrEmpty(row, "model_family") # <<>>
          THEN GetOrEmpty(row, "model_family")
          ELSE GetOrEmpty(row, "model"))

row_variant(row) == Strip(GetOrEmpty(row, "variant"))
row_years(row) == Strip(GetOrEmpty(row, "years"))
row_powertrain(row) == Strip(GetOrEmpty(row, "powertrain"))
row_transmission(row) == Strip(GetOrEmpty(row, "transmission"))

model_key_of(row) ==
    <<row_model(row),
      extract_generation(row_model(row), row_variant(row), row_years(row))>>

variant_key_of_no_years(row) ==
    <<row_variant(row), <<>>, row_powertrain(row), row_transmission(row)>>

variant_key_of(row) ==
    <<row_variant(row), row_years(row), row_powertrain(row),
      row_transmission(row)>>

\* position of key in an ordered dict, 0 when absent
KeyIndex(od, key) ==
    IF \E i \in DOMAIN od : od[i].key = key
    THEN CHOOSE i \in DOMAIN od : od[i].key = key
    ELSE 0

\* od.setdefault(key, default): the dict with the key present
SetDefault(od, key, default) ==
    IF KeyIndex(od, key) = 0
    THEN Append(od, [key |-> key, value |-> default])
    ELSE od

\* model_bucket.setdefault(variant_key, []).append(row)
bucket_append(bucket, variant_key, row) ==
    LET b == SetDefault(bucket, variant_key, <<>>)
        j == KeyIndex(b, variant_key)
    IN  [b EXCEPT ![j].value = Append(@, row)]

group_step_keep_blank(grouped, row) ==
    LET g == SetDefault(grouped, model_key_of(row), <<>>)
        i == KeyIndex(g, model_key_of(row))
    IN  [g EXCEPT ![i].value = bucket_append(@, variant_key_of(row), row)]

\* one pass of the loop over rows
group_step(grouped, row) ==
    IF row_model(row) = <<>> THEN grouped
    ELSE LET g == SetDefault(grouped, model_key_of(row), <<>>)
             i == KeyIndex(g, model_key_of(row))
         IN  [g EXCEPT ![i].value = bucket_append(@, variant_key_of(row), row)]

\* the loop over rows: the ordered dict of ordered dicts of row lists
RECURSIVE group_rows(_, _, _)
group_rows(rows, i, grouped) ==
    IF i > Len(rows) THEN grouped
    ELSE group_rows(rows, i + 1, group_step(grouped, rows[i]))

\* one pass of the loop over a model's variants
section_step(st, model, generation, base_title, model_slug, item) ==
    LET variant == item.key[1]
        years == item.key[2]
        powertrain == item.key[3]
        transmission == item.key[4]
        section_title == format_combination_title(model, generation, variant,
                                                  years, powertrain, transmission)
        alloc == unique_slug(slugify(<<model, generation, variant, years,
                                       powertrain, transmission>>),
                             st.used_section_slugs)
    IN  [st EXCEPT
            !.used_section_slugs = alloc.used,
            !.structured_sections = Append(@,
               [model_family |-> model,
                generation |-> generation,
                variant |-> variant,
                years |-> years,
                powertrain |-> powertrain,
                transmission |-> transmission,
                slug |-> alloc.slug,
                model_slug |-> model_slug,
                model_title |-> base_title,
                title |-> section_title,
                rows |-> [k \in DOMAIN item.value |-> format_row(item.value[k])]])]

RECURSIVE sections_loop(_, _, _, _, _, _, _)
sections_loop(st, model, generation, base_title, model_slug, variants, j) ==
    IF j > Len(variants) THEN st
    ELSE sections_loop(
            section_step(st, model, generation, base_title, model_slug,
                         variants[j]),
            model, generation, base_title, model_slug, variants, j + 1)

model_step_shared_slug_set(st, item) ==
    LET model == item.key[1]
        generation == item.key[2]
        base_title == format_section_title(model, generation)
        alloc == unique_slug(slugify(<<model, generation>>), {})
    IN  sections_loop(st, model, generation, base_title, alloc.slug,
                      item.value, 1)

\* one pass of the loop over grouped.items()
model_step(st, item) ==
    LET model == item.key[1]
        generation == item.key[2]
        base_title == format_section_title(model, generation)
        cached == item.key \in DOMAIN st.model_slug_map
        alloc == unique_slug(slugify(<<model, generation>>), st.used_model_slugs)
        model_slug == IF cached THEN st.model_slug_map[item.key] ELSE alloc.slug
        st1 == IF cached THEN st
               ELSE [st EXCEPT
                        !.used_model_slugs = alloc.used,
                        !.model_slug_map = (item.key :> alloc.slug) @@ @]
    IN  sections_loop(st1, model, generation, base_title, model_slug,
                      item.value, 1)

RECURSIVE models_loop(_, _, _)
models_loop(st, grouped, i) ==
    IF i > Len(grouped) THEN st
    ELSE models_loop(model_step(st, grouped[i]), grouped, i + 1)

build_sections(rows) ==
    LET grouped == group_rows(rows, 1, <<>>)
        st0 == [used_section_slugs |-> {},
                used_model_slugs |-> {},
                model_slug_map |-> <<>>,
                structured_sections |-> <<>>]
    IN  models_loop(st0, grouped, 1).structured_sections

-----------------------------------------------------------------------------
(* Renderer, serializer and the file plumbing of main                      *)
(*                                                                         *)
(* A document is a sequence of pieces: [kind |-> "lit", lit |-> s] is the  *)
(* literal text s (a marker, a tag, other text, a line break), and a       *)
(* rendered fragment is one piece of its own kind.  No rendered fragment   *)
(* holds a marker or a tag the program searches for, because escape turns  *)
(* every "<" of the data into "&lt;".                                      *)

Lit(s) == [kind |-> "lit", lit |-> s]
NL == Lit("\n")

MARK_START == Lit("<!-- BEGIN:PRICE_LIST -->")
MARK_END == Lit("<!-- END:PRICE_LIST -->")
JSONLD_START == Lit("<!-- BEGIN:PRICE_LIST_JSONLD -->")
JSONLD_END == Lit("<!-- END:PRICE_LIST_JSONLD -->")
DATALIST_OPEN == Lit("<datalist id=\"carOptions\">")
DATALIST_CLOSE == Lit("</datalist>")

\* os.environ.get("JSON_OUT", "site/data/prices.json") with the variable unset
JSON_OUT == <<"site/data/prices.json">>

\* html.escape(s, quote=False)
RECURSIVE escape(_)
escape(s) ==
    IF s = <<>> THEN <<>>
    ELSE (IF Head(s) = "&" THEN <<"&","a","m","p",";">>
          ELSE IF Head(s) = "<" THEN <<"&","l","t",";">>
          ELSE IF Head(s) = ">" THEN <<"&","g","t",";">>
          ELSE <<Head(s)>>) \o escape(Tail(s))

\* h.strip() and h.lower() on the header cells a CSV is given here
HeaderStrip(h) ==
    IF h = " Job " THEN "Job" ELSE h

HeaderLower(h) ==
    IF h = "Model" THEN "model"
    ELSE IF h = "Job" THEN "job"
    ELSE IF h = "Price" THEN "price"
    ELSE IF h = "Model_Family" THEN "model_family"
    ELSE h

\* {keys[i]: cleaned[i] for i in range(len(keys))}: a later duplicate wins
DictOf(keys, cleaned) ==
    [k \in Range(keys) |->
        cleaned[CHOOSE i \in DOMAIN keys :
                    keys[i] = k /\ \A j \in DOMAIN keys : keys[j] = k => j <= i]]

\* (r + [""] * len(headers))[: len(headers)]
PadCut(r, n) == [i \in 1..n |-> IF i <= Len(r) THEN r[i] ELSE <<>>]

\* csv.reader's lines to (headers, raw_rows, norm_rows)
parse_csv(lines) ==
    IF lines = <<>> THEN [headers |-> <<>>, raw_rows |-> <<>>, norm_rows |-> <<>>]
    ELSE LET headers == [i \in DOMAIN lines[1] |-> HeaderStrip(lines[1][i])]
             norm_headers == [i \in DOMAIN headers |-> HeaderLower(headers[i])]
             kept == SelectSeq(Tail(lines),
                        LAMBDA r : \E i \in 1..Len(headers) :
                                      Strip(PadCut(r, Len(headers))[i]) # <<>>)
             cleaned(r) == LET values == PadCut(r, Len(headers))
                           IN  [i \in DOMAIN values |-> Strip(values[i])]
         IN  [headers |-> headers,
              raw_rows |-> [k \in DOMAIN kept |-> DictOf(headers, cleaned(kept[k]))],
              norm_rows |-> [k \in DOMAIN kept |-> DictOf(norm_headers, cleaned(kept[k]))]]

\* the fragment of render_price_sections: per Section its attributes, its
\* heading and its table rows, all escaped
render_price_sections(sections) ==
    [kind |-> "price_sections",
     sections |-> [j \in DOMAIN sections |->
                 [data_model |-> escape(sections[j].slug),
                  data_alias |-> IF sections[j].model_slug # <<>>
                                 THEN escape(sections[j].model_slug) ELSE <<>>,
                  h3 |-> escape(sections[j].title),
                  tbody |-> [k \in DOMAIN sections[j].rows |->
                               <<escape(sections[j].rows[k].job),
                                 escape(sections[j].rows[k].interval),
                                 escape(sections[j].rows[k].price)>>]]]]

RECURSIVE datalist_loop(_, _, _, _)
datalist_loop(sections, j, seen, lines) ==
    IF j > Len(sections) THEN lines
    ELSE LET model_slug == IF sections[j].model_slug # <<>>
                           THEN sections[j].model_slug ELSE sections[j].slug
             model_title == IF sections[j].model_title # <<>>
                            THEN sections[j].model_title ELSE sections[j].title
         IN  IF model_slug \in seen
             THEN datalist_loop(sections, j + 1, seen, lines)
             ELSE datalist_loop(sections, j + 1, seen \cup {model_slug},
                                Append(lines, <<escape(model_slug),
                                                escape(model_title)>>))

S_all == <<"a","l","l">>
S_All_models == <<"A","l","l"," ","m","o","d","e","l","s">>

\* the fragment of render_datalist_options: (data-value, value) per option
render_datalist_options(sections) ==
    [kind |-> "options",
     options |-> datalist_loop(sections, 1, {}, << <<S_all, S_All_models>> >>)]

build_json_payload(sections) ==
    [j \in DOMAIN sections |->
        [id |-> sections[j].slug,
         title |-> sections[j].title,
         model_family |-> sections[j].model_family,
         generation |-> sections[j].generation,
         variant |-> sections[j].variant,
         years |-> sections[j].years,
         powertrain |-> sections[j].powertrain,
         transmission |-> sections[j].transmission,
         model_slug |-> sections[j].model_slug,
         model_title |-> sections[j].model_title,
         items |-> sections[j].rows]]

\* text.find(piece): the first position of the piece, 0 when absent
Find(text, piece) ==
    IF \E i \in DOMAIN text : text[i] = piece
    THEN CHOOSE i \in DOMAIN text :
            text[i] = piece /\ \A k \in DOMAIN text : text[k] = piece => i <= k
    ELSE 0

\* text.find(piece, start): the first position after start, 0 when absent
FindAfter(text, piece, start) ==
    IF \E i \in DOMAIN text : i > start /\ text[i] = piece
    THEN CHOOSE i \in DOMAIN text :
            /\ i > start /\ text[i] = piece
            /\ \A k \in DOMAIN text : (k > start /\ text[k] = piece) => i <= k
    ELSE 0

replace_datalist_options(html_text, options_html) ==
    LET start == Find(html_text, DATALIST_OPEN)
        end == FindAfter(html_text, DATALIST_CLOSE, start)
    IN  IF start = 0 THEN html_text
        ELSE IF end = 0 THEN html_text
        ELSE SubSeq(html_text, 1, start) \o <<NL, options_html, NL>>
             \o SubSeq(html_text, end, Len(html_text))

\* the fragment of render_table: the header cells and the escaped body cells
\* (no header name used here holds a character that escape changes)
render_table(headers, rows) ==
    [kind |-> "table",
     table |-> [thead |-> [i \in DOMAIN headers |-> headers[i]],
               tbody |-> [k \in DOMAIN rows |->
                            [i \in DOMAIN headers |-> escape(rows[k][headers[i]])]]]]

\* what a raise leaves in place of a return value
Raised == <<[kind |-> "RuntimeError", raised |-> TRUE]>>

replace_between_markers_lenient(text, start, end, replacement) ==
    LET i == Find(text, start)
        j == Find(text, end)
    IN  IF i = 0 \/ j = 0 \/ j < i THEN text
        ELSE SubSeq(text, 1, i) \o <<NL, replacement, NL>>
             \o SubSeq(text, j, Len(text))

replace_between_markers(text, start, end, replacement) ==
    LET i == Find(text, start)
        j == Find(text, end)
    IN  IF i = 0 \/ j = 0 \/ j < i THEN Raised
        ELSE SubSeq(text, 1, i) \o <<NL, replacement, NL>>
             \o SubSeq(text, j, Len(text))

\* json.dumps(payload, indent=2, ensure_ascii=False): the text of a payload
dumps(payload) == <<[kind |-> "json", json |-> payload]>>

\* the file after write_if_changed(path, content), and whether it wrote
write_if_changed(file, content) ==
    LET existing == IF file.exists THEN file.text ELSE <<>>
    IN  IF existing # content
        THEN [file |-> [exists |-> TRUE, text |-> content], written |-> TRUE]
        ELSE [file |-> file, written |-> FALSE]

\* name_col and price_col are None: the mapping is not configured
maybe_make_jsonld(headers, rows) == None

\* available_keys: the keys of all norm_rows
available_keys_of(norm_rows) ==
    UNION {DOMAIN norm_rows[k] : k \in DOMAIN norm_rows}

structured_keys == {"model_family", "variant", "service_category", "service_item"}
legacy_keys == {"model", "job", "interval", "price"}

choose_schema_legacy_first(available_keys) ==
    IF legacy_keys \subseteq available_keys THEN "legacy"
    ELSE IF structured_keys \subseteq available_keys THEN "structured"
    ELSE "none"

\* the branch of the if / elif / else over the header sets
choose_schema(available_keys) ==
    IF structured_keys \subseteq available_keys THEN "structured"
    ELSE IF legacy_keys \subseteq available_keys THEN "legacy"
    ELSE "none"

-----------------------------------------------------------------------------
(* Inputs of the library calls                                             *)

MaxRows == 3
MaxPartLen == 3
MaxUsed == 3
MaxPriceLen == 4
MaxGenLen == 5

\* all strings over the characters cs of length at most n
Strs(cs, n) == UNION {[1..k -> cs] : k \in 0..n}

S_Civic == <<"C","i","v","i","c">>
S_civic == <<"c","i","v","i","c">>
S_Jazz == <<"J","a","z","z">>
S_11th_Gen == <<"1","1","t","h"," ","G","e","n">>
S_11th == <<"1","1","t","h">>
S_2022 == <<"2","0","2","2">>
S_2023 == <<"2","0","2","3">>
S_Fluids == <<"F","l","u","i","d","s">>
S_Oil == <<"O","i","l">>

BaseRow ==
    [model_family |-> <<>>, variant |-> <<>>, years |-> <<>>,
     powertrain |-> <<>>, transmission |-> <<>>,
     service_category |-> <<>>, service_item |-> <<>>,
     interval_miles |-> <<>>, interval_years |-> <<>>,
     price_gbp_ex_vat |-> <<>>]

\* the row of the Civic scenario
CivicRow ==
    [BaseRow EXCEPT !.model_family = S_Civic, !.variant = S_11th_Gen,
                    !.years = S_2022, !.service_category = S_Fluids,
                    !.service_item = S_Oil,
                    !.price_gbp_ex_vat = <<"1","5","0">>]

RowSamples ==
    { CivicRow,
      \* same model-key, another variant-key
      [CivicRow EXCEPT !.years = S_2023,
                       !.service_category = S_scheduled_service,
                       !.service_item = S_maintenance,
                       !.interval_miles = <<"1","2","0","0","0">>,
                       !.interval_years = <<"1">>,
                       !.price_gbp_ex_vat = <<>>],
      \* same keys as CivicRow, another job
      [CivicRow EXCEPT !.service_item = <<"B","r","a","k","e">>,
                       !.price_gbp_ex_vat = <<"1",",","0","0","0">>],
      \* another model-key with the same slugify base
      [CivicRow EXCEPT !.model_family = S_civic],
      [CivicRow EXCEPT !.model_family = S_civic, !.years = S_2023],
      \* a model-key whose slugify base is "civic-11th-2"
      [CivicRow EXCEPT !.variant = <<>>, !.years = <<"1","1","t","h"," ","2">>],
      \* no model value
      [BaseRow EXCEPT !.service_item = S_Oil],
      \* model_family blank, model given
      ("model" :> S_Jazz) @@ [BaseRow EXCEPT !.service_item = S_Oil] }

RowLists == Strs(RowSamples, MaxRows)

SlugChars == {"a", "B", "1", "-", " ", "ndash", "mdash"}
SlugSecondParts == {<<>>, <<"Z","9">>, <<"-">>}
SlugBases == {<<>>, <<"a">>, <<"a","-","2">>, <<"s","e","c","t","i","o","n">>}

PriceChars == {"0", "1", ".", ",", " ", "x"}

TitleModels == {<<"C">>, <<"1","1">>}
GenChars == {"1", "-", "ndash", "mdash", "c"}

GenModels == {S_Civic, <<>>}
GenVariants == {S_11th_Gen, <<"G","e","n"," ","1","1">>, <<"1"," ","G","e","n">>,
                <<"2","0","2","2","1","E","X"," ","L">>, <<>>}
GenYears == {S_2022, <<"n","/","a">>, <<>>}

Inputs ==
    {[f |-> "build_sections", rows |-> r] : r \in RowLists}
    \cup {[f |-> "slugify", parts |-> <<p, q>>] :
            p \in Strs(SlugChars, MaxPartLen), q \in SlugSecondParts}
    \cup {[f |-> "unique_slug", base |-> b, used |-> {}] : b \in SlugBases}
    \cup {[f |-> "format_price", value |-> v] : v \in Strs(PriceChars, MaxPriceLen)}
    \cup {[f |-> "format_section_title", model |-> m, generation |-> g] :
            m \in TitleModels, g \in Strs(GenChars, MaxGenLen)}
    \cup {[f |-> "extract_generation", model |-> m, variant |-> v, years |-> y] :
            m \in GenModels, v \in GenVariants, y \in GenYears}

-----------------------------------------------------------------------------
(* Inputs of a run of main                                                 *)

MaxDataRows == 2
MaxRuns == 2

HeaderSamples ==
    { <<"model_family", "variant", "years", "service_category", "service_item",
        "price_gbp_ex_vat">>,
      <<"Model_Family", "variant", "service_category", "service_item">>,
      <<"model", "job", "interval", "price">>,
      <<"Model", " Job ", "interval", "Price">>,
      <<"model_family", "variant", "service_category", "service_item",
        "model", "job", "interval", "price">>,
      <<"model_family", "variant", "model", "job", "interval", "price">>,
      <<"model", "job", "price">>,
      <<"model_family", "variant", "service_category">> }

\* the cell a data line holds under a header
CellA(h) ==
    LET k == HeaderLower(HeaderStrip(h))
    IN  IF k = "model_family" THEN S_Civic
        ELSE IF k = "variant" THEN S_11th_Gen
        ELSE IF k = "years" THEN <<" ">> \o S_2022
        ELSE IF k = "service_category" THEN S_Fluids
        ELSE IF k = "service_item" THEN S_Oil
        ELSE IF k = "price_gbp_ex_vat" THEN <<"1","5","0"," ">>
        ELSE IF k = "model" THEN S_Jazz
        ELSE IF k = "job" THEN <<"A","&","B">>
        ELSE IF k = "interval" THEN <<"1","<","2">>
        ELSE <<" ","1","5","0">>

CellB(h) ==
    LET k == HeaderLower(HeaderStrip(h))
    IN  IF k = "years" THEN S_2023
        ELSE IF k = "model" THEN <<>>
        ELSE CellA(h)

(* a data line under the given header line: "a" a full line, "b" another   *)
(* line that is one cell short, "blank" a line of blank cells              *)
DataLine(headers, kind) ==
    IF kind = "a" THEN [i \in DOMAIN headers |-> CellA(headers[i])]
    ELSE IF kind = "b"
    THEN [i \in 1..(Len(headers) - 1) |-> CellB(headers[i])]
    ELSE [i \in DOMAIN headers |-> <<" ">>]

LineKinds == {"a", "b", "blank"}

CsvSamples ==
    {<<>>}
    \cup {<<h>> \o [k \in DOMAIN kinds |-> DataLine(h, kinds[k])] :
             h \in HeaderSamples, kinds \in Strs(LineKinds, MaxDataRows)}

Other == Lit("<p>text</p>")
Stale == Lit("stale")

HtmlSamples ==
    { <<Other, MARK_START, Stale, MARK_END, Other>>,
      <<MARK_START, MARK_END, DATALIST_OPEN, Stale, DATALIST_CLOSE>>,
      <<DATALIST_OPEN, DATALIST_CLOSE, MARK_START, MARK_END, MARK_END>>,
      <<MARK_START, DATALIST_OPEN, DATALIST_CLOSE, MARK_END>>,
      <<MARK_START, Other>>,
      <<MARK_END, Stale, MARK_START>>,
      <<DATALIST_OPEN, MARK_START, Stale, MARK_END, DATALIST_CLOSE,
        MARK_START, Stale, MARK_END>>,
      <<Other>> }

NoFile == [exists |-> FALSE, text |-> <<>>]
FileOf(text) == [exists |-> TRUE, text |-> text]

HtmlFiles == {FileOf(t) : t \in HtmlSamples} \cup {NoFile}
JsonFiles == {NoFile, FileOf(dumps(<<>>))}

NoPayload == [set |-> FALSE, value |-> <<>>]

LibIdle ==
    /\ fn = "none"
    /\ args = [f |-> "main"]
    /\ result = <<>>

MainLocalsReset ==
    /\ html_src = <<>>
    /\ html_out = <<>>
    /\ json_payload = NoPayload
    /\ path = "none"
    /\ error = "none"
    /\ writes = <<>>

MainIdle ==
    /\ pc = "idle"
    /\ csv = <<>>
    /\ config = [write_jsonld |-> FALSE]
    /\ html_file = NoFile
    /\ json_file = NoFile
    /\ snapshot = [html |-> NoFile, json |-> NoFile]
    /\ runs = 0
    /\ MainLocalsReset

-----------------------------------------------------------------------------
(* The library: one call of a function on an input                         *)

Init ==
    /\ fn = "none"
    /\ args \in Inputs
    /\ result = <<>>
    /\ MainIdle

Returns(f, value) ==
    /\ fn = "none"
    /\ args.f = f
    /\ fn' = f
    /\ result' = value
    /\ UNCHANGED args
    /\ UNCHANGED mainVars

CallBuildSections == Returns("build_sections", build_sections(args.rows))

CallSlugify == Returns("slugify", slugify(args.parts))

CallUniqueSlug == Returns("unique_slug", unique_slug(args.base, args.used))

\* the caller allocates again against the set the last call left
CallUniqueSlugAgain ==
    /\ fn = "unique_slug"
    /\ Cardinality(result.used) < MaxUsed
    /\ \E b \in SlugBases :
          /\ args' = [f |-> "unique_slug", base |-> b, used |-> result.used]
          /\ result' = unique_slug(b, result.used)
    /\ UNCHANGED fn
    /\ UNCHANGED mainVars

CallFormatPrice == Returns("format_price", format_price(args.value))

CallFormatSectionTitle ==
    Returns("format_section_title",
            format_section_title(args.model, args.generation))

CallExtractGeneration ==
    Returns("extract_generation",
            extract_generation(args.model, args.variant, args.years))

Next ==
    \/ CallBuildSections
    \/ CallSlugify
    \/ CallUniqueSlug
    \/ CallUniqueSlugAgain
    \/ CallFormatPrice
    \/ CallFormatSectionTitle
    \/ CallExtractGeneration

Spec == Init /\ [][Next]_vars

-----------------------------------------------------------------------------
(* A run of main, step by step between its file accesses                   *)

InitMain ==
    /\ LibIdle
    /\ pc = "idle"
    /\ csv \in CsvSamples
    /\ config \in [write_jsonld : BOOLEAN]
    /\ html_file \in HtmlFiles
    /\ json_file \in JsonFiles
    /\ snapshot = [html |-> html_file, json |-> json_file]
    /\ runs = 0
    /\ MainLocalsReset

Ended == pc \in {"done", "raised", "returned"}

\* the script is started (again, on the same CSV and configuration)
MainStart ==
    /\ pc = "idle" \/ Ended
    /\ runs < MaxRuns
    /\ pc' = "parse"
    /\ runs' = runs + 1
    /\ snapshot' = [html |-> html_file, json |-> json_file]
    /\ html_src' = <<>>
    /\ html_out' = <<>>
    /\ json_payload' = NoPayload
    /\ path' = "none"
    /\ error' = "none"
    /\ writes' = <<>>
    /\ UNCHANGED <<csv, config, html_file, json_file>>
    /\ UNCHANGED libVars

\* fetch_csv, parse_csv and the return on no data rows
MainParse ==
    /\ pc = "parse"
    /\ pc' = IF parse_csv(csv).raw_rows = <<>> THEN "returned" ELSE "dispatch"
    /\ UNCHANGED <<csv, config, html_file, json_file, html_src, html_out,
                   json_payload, path, error, writes, snapshot, runs>>
    /\ UNCHANGED libVars

Raise(why, branch) ==
    /\ pc' = "raised"
    /\ error' = why
    /\ path' = branch
    /\ UNCHANGED <<html_out, json_payload>>

\* reading the target document and the if / elif / else over the headers
MainDispatch ==
    /\ pc = "dispatch"
    /\ LET parsed == parse_csv(csv)
           schema == choose_schema(available_keys_of(parsed.norm_rows))
           sections == build_sections(parsed.norm_rows)
           markup == IF schema = "structured"
                     THEN render_price_sections(sections)
                     ELSE render_table(parsed.headers, parsed.raw_rows)
           replaced == replace_between_markers(html_file.text, MARK_START,
                                               MARK_END, markup)
       IN  IF ~html_file.exists
           THEN Raise("no_target", "none") /\ UNCHANGED html_src
           ELSE /\ html_src' = html_file.text
                /\ IF schema = "none" THEN Raise("headers", "none")
                   ELSE IF replaced = Raised THEN Raise("markers", schema)
                   ELSE /\ pc' = "write_json"
                        /\ path' = schema
                        /\ error' = "none"
                        /\ IF schema = "structured"
                           THEN /\ html_out' = replace_datalist_options(
                                       replaced, render_datalist_options(sections))
                                /\ json_payload' =
                                      [set |-> TRUE,
                                       value |-> build_json_payload(sections)]
                           ELSE /\ html_out' = replaced
                                /\ json_payload' =
                                      [set |-> TRUE, value |-> parsed.raw_rows]
    /\ UNCHANGED <<csv, config, html_file, json_file, writes, snapshot, runs>>
    /\ UNCHANGED libVars

\* if JSON_OUT and json_payload is not None: write_if_changed(...)
MainWriteJson ==
    /\ pc = "write_json"
    /\ pc' = "jsonld"
    /\ IF JSON_OUT # <<>> /\ json_payload.set
       THEN LET w == write_if_changed(json_file, dumps(json_payload.value))
            IN  /\ json_file' = w.file
                /\ writes' = IF w.written THEN Append(writes, "json") ELSE writes
       ELSE UNCHANGED <<json_file, writes>>
    /\ UNCHANGED <<csv, config, html_file, html_src, html_out, json_payload,
                   path, error, snapshot, runs>>
    /\ UNCHANGED libVars

\* if WRITE_JSONLD: the JSON-LD script between its markers
MainJsonLd ==
    /\ pc = "jsonld"
    /\ LET jsonld == maybe_make_jsonld(parse_csv(csv).headers,
                                       parse_csv(csv).raw_rows)
           replaced == replace_between_markers(html_out, JSONLD_START,
                                               JSONLD_END, Lit(jsonld))
       IN  IF config.write_jsonld /\ jsonld # None
           THEN IF replaced = Raised
                THEN /\ pc' = "raised"
                     /\ error' = "markers"
                     /\ UNCHANGED html_out
                ELSE /\ pc' = "write_html"
                     /\ html_out' = replaced
                     /\ UNCHANGED error
           ELSE /\ pc' = "write_html"
                /\ UNCHANGED <<html_out, error>>
    /\ UNCHANGED <<csv, config, html_file, json_file, html_src, json_payload,
                   path, writes, snapshot, runs>>
    /\ UNCHANGED libVars

\* if html_out != html_src: target.write_text(html_out)
MainWriteHtml ==
    /\ pc = "write_html"
    /\ pc' = "done"
    /\ IF html_out # html_src
       THEN /\ html_file' = FileOf(html_out)
            /\ writes' = Append(writes, "html")
       ELSE UNCHANGED <<html_file, writes>>
    /\ UNCHANGED <<csv, config, json_file, html_src, html_out, json_payload,
                   path, error, snapshot, runs>>
    /\ UNCHANGED libVars

NextMain ==
    \/ MainStart
    \/ MainParse
    \/ MainDispatch
    \/ MainWriteJson
    \/ MainJsonLd
    \/ MainWriteHtml

SpecMain == InitMain /\ [][NextMain]_vars

-----------------------------------------------------------------------------
(* Properties of the library                                               *)

Sections == result
InputRows == args.rows
Built == fn = "build_sections"

\* the model value of a row: model_family, else model, trimmed
ModelValue(row) ==
    LET mf == IF "model_family" \in DOMAIN row THEN row.model_family ELSE <<>>
        m == IF "model" \in DOMAIN row THEN row.model ELSE <<>>
    IN  Strip(IF mf # <<>> THEN mf ELSE m)

Field(row, k) == IF k \in DOMAIN row THEN Strip(row[k]) ELSE <<>>

\* the (model-key, variant-key) pair of a row
RowModelKey(row) ==
    <<ModelValue(row),
      extract_generation(ModelValue(row), Field(row, "variant"),
                         Field(row, "years"))>>

RowVariantKey(row) ==
    <<Field(row, "variant"), Field(row, "years"), Field(row, "powertrain"),
      Field(row, "transmission")>>

RowKey(row) == <<RowModelKey(row), RowVariantKey(row)>>

SectionModelKey(s) == <<s.model_family, s.generation>>

SectionKey(s) ==
    <<SectionModelKey(s),
      <<s.variant, s.years, s.powertrain, s.transmission>>>>

HasModel(row) == ModelValue(row) # <<>>

SectionSlugBase(s) ==
    slugify(<<s.model_family, s.generation, s.variant, s.years, s.powertrain,
              s.transmission>>)

(* C1: no two Sections returned by build_sections have the same slug; a    *)
(* call of unique_slug returns a value that was not in the tracking set    *)
(* before the call and adds it, so a second call with the same base        *)
(* against the same set returns another slug.                              *)
C1_UniqueSlugs ==
    /\ Built =>
          \A i, j \in DOMAIN Sections :
              i # j => Sections[i].slug # Sections[j].slug
    /\ fn = "unique_slug" =>
          /\ result.slug \notin args.used
          /\ result.used = args.used \cup {result.slug}
          /\ unique_slug(args.base, result.used).slug # result.slug

\* two Sections whose slugify bases collide
C1_Witness ==
    /\ Built
    /\ \E i, j \in DOMAIN Sections :
          /\ i # j
          /\ SectionSlugBase(Sections[i]) = SectionSlugBase(Sections[j])

(* C2: each row with a non-blank model value appears, formatted, in the    *)
(* rows of exactly one Section, rows with a blank model value appear in    *)
(* none, and the rows of a Section keep the relative order of the input.   *)
C2_RowsRoundTrip ==
    Built =>
       /\ \A j \in DOMAIN Sections :
             LET mine == SelectSeq(InputRows,
                            LAMBDA r : HasModel(r) /\ RowKey(r) = SectionKey(Sections[j]))
             IN  Sections[j].rows = [k \in DOMAIN mine |-> format_row(mine[k])]
       /\ \A i \in DOMAIN InputRows :
             HasModel(InputRows[i]) =>
                Cardinality({j \in DOMAIN Sections :
                                SectionKey(Sections[j]) = RowKey(InputRows[i])}) = 1

\* a blank row between two different rows of one Section
C2_Witness ==
    /\ Built
    /\ Len(InputRows) = 3
    /\ HasModel(InputRows[1]) /\ ~HasModel(InputRows[2]) /\ HasModel(InputRows[3])
    /\ RowKey(InputRows[1]) = RowKey(InputRows[3])
    /\ InputRows[1] # InputRows[3]
    /\ Len(Sections) = 1 /\ Len(Sections[1].rows) = 2

(* C3: two Sections have the same model_slug exactly when they have the    *)
(* same model-key (model_family, generation).                              *)
C3_ModelSlugPerModelKey ==
    Built =>
       \A i, j \in DOMAIN Sections :
           (Sections[i].model_slug = Sections[j].model_slug)
             <=> (SectionModelKey(Sections[i]) = SectionModelKey(Sections[j]))

\* two model-keys with one slugify base, one of them with two Sections
C3_Witness ==
    /\ Built
    /\ \E i, j, k \in DOMAIN Sections :
          /\ i # j
          /\ SectionModelKey(Sections[i]) = SectionModelKey(Sections[j])
          /\ SectionModelKey(Sections[i]) # SectionModelKey(Sections[k])
          /\ slugify(SectionModelKey(Sections[i])) = slugify(SectionModelKey(Sections[k]))

\* ^[a-z0-9]+(-[a-z0-9]+)*$
MatchesSlugPattern(s) ==
    /\ s # <<>>
    /\ \A i \in DOMAIN s : IsLowerLetter(s[i]) \/ IsDigit(s[i]) \/ s[i] = "-"
    /\ s[1] # "-"
    /\ s[Len(s)] # "-"
    /\ \A i \in 1..(Len(s) - 1) : ~(s[i] = "-" /\ s[i + 1] = "-")

HasAlnum(parts) ==
    \E i \in DOMAIN parts : \E k \in DOMAIN parts[i] : IsAsciiAlnum(parts[i][k])

(* C4: the result of slugify and every slug and model_slug of a Section    *)
(* is non-empty and matches ^[a-z0-9]+(-[a-z0-9]+)*$; slugify returns      *)
(* "section" when no alphanumeric character remains.                       *)
C4_SlugShape ==
    /\ fn = "slugify" =>
          /\ MatchesSlugPattern(result)
          /\ ~HasAlnum(args.parts) => result = <<"s","e","c","t","i","o","n">>
    /\ Built =>
          \A i \in DOMAIN Sections :
              /\ MatchesSlugPattern(Sections[i].slug)
              /\ MatchesSlugPattern(Sections[i].model_slug)

\* slugify of a text with separators at both ends and inside
C4_Witness ==
    /\ fn = "slugify"
    /\ Len(args.parts[1]) = 3
    /\ args.parts[1][1] = "mdash"
    /\ args.parts[1][2] = "B"
    /\ args.parts[1][3] = " "
    /\ args.parts[2] = <<"-">>
    /\ result = <<"b">>

KeyedRows == {i \in DOMAIN InputRows : HasModel(InputRows[i])}

FirstWithModelKey(mk) ==
    CHOOSE i \in KeyedRows :
        /\ RowModelKey(InputRows[i]) = mk
        /\ \A k \in KeyedRows : RowModelKey(InputRows[k]) = mk => i <= k

FirstWithKey(key) ==
    CHOOSE i \in KeyedRows :
        /\ RowKey(InputRows[i]) = key
        /\ \A k \in KeyedRows : RowKey(InputRows[k]) = key => i <= k

(* C5: there is exactly one Section per distinct (model-key, variant-key)  *)
(* pair of the input; Sections are ordered by the first row of their       *)
(* model-key and, within a model-key, by the first row of their pair, so   *)
(* the Sections of one model-key are contiguous.                           *)
C5_SectionOrder ==
    Built =>
       /\ {SectionKey(Sections[j]) : j \in DOMAIN Sections}
             = {RowKey(InputRows[i]) : i \in KeyedRows}
       /\ Len(Sections) = Cardinality({RowKey(InputRows[i]) : i \in KeyedRows})
       /\ \A a, b \in DOMAIN Sections :
             a < b =>
                LET ma == SectionModelKey(Sections[a])
                    mb == SectionModelKey(Sections[b])
                IN  \/ FirstWithModelKey(ma) < FirstWithModelKey(mb)
                    \/ /\ ma = mb
                       /\ FirstWithKey(SectionKey(Sections[a]))
                             < FirstWithKey(SectionKey(Sections[b]))
       /\ \A a, b, c \in DOMAIN Sections :
             (a < b /\ b < c
                /\ SectionModelKey(Sections[a]) = SectionModelKey(Sections[c]))
             => SectionModelKey(Sections[b]) = SectionModelKey(Sections[a])

\* rows of two model-keys interleaved: the Section of the third row comes
\* before the Section of the second
C5_Witness ==
    /\ Built
    /\ Len(InputRows) = 3
    /\ Len(Sections) = 3
    /\ SectionKey(Sections[2]) = RowKey(InputRows[3])
    /\ SectionKey(Sections[3]) = RowKey(InputRows[2])


S_Civic_paren_11th == <<"C","i","v","i","c"," ","(","1","1","t","h",")">>
S_Civic_11th == <<"C","i","v","i","c"," ","1","1","t","h">>

\* the Sections built for the rows of the Civic scenario
CivicSections ==
    {j \in DOMAIN Sections :
        \E i \in DOMAIN InputRows :
            /\ RowKey(InputRows[i]) = SectionKey(Sections[j])
            /\ ModelValue(InputRows[i]) = S_Civic
            /\ Field(InputRows[i], "variant") = S_11th_Gen
            /\ Field(InputRows[i], "years") = S_2022}

CivicGenerationCall ==
    /\ fn = "extract_generation"
    /\ args.model = S_Civic /\ args.variant = S_11th_Gen /\ args.years = S_2022

(* C7 as stated: for model_family "Civic", variant "11th Gen", years       *)
(* "2022", extract_generation returns "11th" and the Section's model_title *)
(* is "Civic (11th)".                                                      *)
C7_Original ==
    /\ CivicGenerationCall => result = S_11th
    /\ Built =>
          \A j \in CivicSections :
              /\ Sections[j].generation = S_11th
              /\ Sections[j].model_title = S_Civic_paren_11th

(* C7 amended: for model_family "Civic", variant "11th Gen", years "2022", *)
(* extract_generation returns "11th" and the Section's model_title is      *)
(* "Civic 11th": "11th" ends in two letters, so neither parenthesising     *)
(* pattern of format_section_title matches it.                             *)
C7_CivicTitle ==
    /\ CivicGenerationCall => result = S_11th
    /\ Built =>
          \A j \in CivicSections :
              /\ Sections[j].generation = S_11th
              /\ Sections[j].model_title = S_Civic_11th

\* build_sections has run on a list that starts with the Civic row
C7_Witness ==
    /\ Built
    /\ Len(InputRows) >= 1
    /\ InputRows[1] = CivicRow
    /\ 1 \in CivicSections

PriceRaw == Strip(args.value)
PriceNumber == ParseFloat(Remove(PriceRaw, ","))
PriceText == DropFirst(result, Len(CURRENCY_SYMBOL))

(* C8 as stated: for a numeric raw price format_price is the currency      *)
(* symbol followed by format_number of the value; a blank raw gives "POA"  *)
(* and a non-numeric raw gives the trimmed original string.                *)
C8_Original ==
    fn = "format_price" =>
       IF PriceRaw = <<>> THEN result = <<"P","O","A">>
       ELSE IF ~PriceNumber.ok THEN result = PriceRaw
       ELSE result = CURRENCY_SYMBOL \o format_number(PriceNumber)

(* C8 amended: for a numeric raw price with an integer value format_price  *)
(* is the currency symbol followed by the plain decimal integer (digits    *)
(* only, no "k" form for multiples of 1000); with a non-integer value it   *)
(* is the currency symbol followed by format_number of the value; a blank  *)
(* raw gives "POA" and a non-numeric raw gives the trimmed original.       *)
C8_PriceFormat ==
    fn = "format_price" =>
       IF PriceRaw = <<>> THEN result = <<"P","O","A">>
       ELSE IF ~PriceNumber.ok THEN result = PriceRaw
       ELSE /\ TakeFirst(result, Len(CURRENCY_SYMBOL)) = CURRENCY_SYMBOL
            /\ IF IsInteger(PriceNumber)
               THEN /\ PriceText # <<>>
                    /\ AllDigits(PriceText)
                    /\ DigitsVal(PriceText) * Pow10(PriceNumber.d) = PriceNumber.n
                    /\ (Len(PriceText) > 1 => PriceText[1] # "0")
               ELSE PriceText = format_number(PriceNumber)

\* a price that is a multiple of 1000
C8_Witness ==
    /\ fn = "format_price"
    /\ args.value = <<"1","0","0","0">>
    /\ result = <<"pound","1","0","0","0">>

BothDashesNormalised(g) == Replace(Replace(g, "ndash", "-"), "mdash", "-")

(* C9: for a non-empty model and a non-empty generation that differs from  *)
(* it case-insensitively, if the generation with en dashes and em dashes   *)
(* replaced by hyphens is a 2-4 digit token or a range of two such tokens, *)
(* format_section_title returns "{model} ({generation})".                  *)
C9_DigitRangeTitle ==
    (/\ fn = "format_section_title"
     /\ args.model # <<>>
     /\ args.generation # <<>>
     /\ Lower(args.generation) # Lower(args.model)
     /\ FullMatchDigitsOrRange(BothDashesNormalised(args.generation)))
    => result = args.model \o <<" ","(">> \o args.generation \o <<")">>


-----------------------------------------------------------------------------
(* Properties of a run of main                                             *)

\* the lower-cased header names of the CSV
HeaderKeys ==
    IF csv = <<>> THEN {}
    ELSE {HeaderLower(HeaderStrip(csv[1][i])) : i \in DOMAIN csv[1]}

HasStructured ==
    {"model_family", "variant", "service_category", "service_item"} \subseteq HeaderKeys

HasLegacy == {"model", "job", "interval", "price"} \subseteq HeaderKeys

\* no line after the header line has a non-blank cell under a header
NoDataRows ==
    \/ csv = <<>>
    \/ \A k \in 2..Len(csv) :
          \A i \in DOMAIN csv[k] : i <= Len(csv[1]) => Strip(csv[k][i]) = <<>>

\* the price-list markers are missing or out of order in a document
MarkersBroken(doc) ==
    \/ ~\E i \in DOMAIN doc : doc[i] = MARK_START
    \/ ~\E j \in DOMAIN doc : doc[j] = MARK_END
    \/ \E j \in DOMAIN doc :
          /\ doc[j] = MARK_END
          /\ \A i \in DOMAIN doc : doc[i] = MARK_START => j < i

\* the current run is one of the runs the claim says write nothing
FailingRun ==
    /\ pc # "idle"
    /\ \/ NoDataRows
       \/ ~HasStructured /\ ~HasLegacy
       \/ snapshot.html.exists /\ MarkersBroken(snapshot.html.text)

(* C6: a run on a CSV without data rows, on headers that match neither     *)
(* the structured nor the legacy set, or on a target document whose        *)
(* price-list markers are missing or out of order, writes no file: the     *)
(* JSON output file and the target document stay as the run found them.    *)
C6_NoWriteOnFailure ==
    FailingRun =>
       /\ writes = <<>>
       /\ html_file = snapshot.html
       /\ json_file = snapshot.json
       /\ Ended => pc \in {"raised", "returned"}

\* a structured run that raised on the markers, with no JSON file on disk
C6_Witness ==
    /\ pc = "raised"
    /\ error = "markers"
    /\ path = "structured"
    /\ HasStructured
    /\ ~json_file.exists
    /\ writes = <<>>

Dispatched ==
    \/ pc \in {"write_json", "jsonld", "write_html", "done"}
    \/ pc = "raised" /\ error # "no_target"

TablePieces == {i \in DOMAIN html_out : html_out[i].kind = "table"}
GroupedPieces ==
    {i \in DOMAIN html_out : html_out[i].kind \in {"price_sections", "options"}}

(* C10: with at least one data row, main takes the structured path         *)
(* whenever the four structured headers are present (lower-cased), also    *)
(* when the legacy headers are present too; it takes the legacy path only  *)
(* when the structured set is incomplete and the four legacy headers are   *)
(* present, and then the JSON payload is the raw parsed rows (keyed by the *)
(* headers as written) and the HTML gets one flat table and no grouped     *)
(* fragment; with neither set complete the run raises the                  *)
(* headers-not-recognised error.                                           *)
C10_SchemaDispatch ==
    Dispatched =>
       /\ ~NoDataRows
       /\ (path = "structured") <=> HasStructured
       /\ (path = "legacy") <=> (~HasStructured /\ HasLegacy)
       /\ (pc = "raised" /\ error = "headers") <=> (~HasStructured /\ ~HasLegacy)
       /\ (path = "legacy" /\ pc # "raised") =>
             /\ json_payload.set
             /\ json_payload.value = parse_csv(csv).raw_rows
             /\ \A k \in DOMAIN json_payload.value :
                   DOMAIN json_payload.value[k]
                      = {HeaderStrip(csv[1][i]) : i \in DOMAIN csv[1]}
             /\ Cardinality(TablePieces) = 1
             /\ GroupedPieces = {}
             /\ \A i \in TablePieces :
                   /\ html_out[i].table.thead
                         = [c \in DOMAIN csv[1] |-> HeaderStrip(csv[1][c])]
                   /\ Len(html_out[i].table.tbody) = Len(json_payload.value)

\* a finished run on a CSV that has both header sets
C10_Witness ==
    /\ pc = "done"
    /\ HasStructured /\ HasLegacy
    /\ path = "structured"
    /\ writes # <<>>

-----------------------------------------------------------------------------
(* Running main again on the same CSV and configuration                    *)

\* the run in progress is the second one, on the files the first run left
SecondRun == runs = 2

(* C11: re-running is idempotent: when main is run twice in succession on  *)
(* the same CSV and configuration, the second run performs no file write,  *)
(* so the target document and the JSON file stay what the first run left.  *)
C11_RerunIdempotent ==
    SecondRun =>
        /\ writes = <<>>
        /\ html_file = snapshot.html
        /\ json_file = snapshot.json

====
